---- MODULE Spec2Model ----
(***************************************************************************)
(* A model of tap-ebay's HTTP client (src/tap_ebay/client.py): the token   *)
(* exchange of EbayClient.authorize and the two stacked backoff layers of  *)
(* EbayClient.make_request (backoff==2.2.1, pinned in src/setup.py).       *)
(*                                                                         *)
(* Python values are tagged records, text that the code parses is a        *)
(* sequence of one-character strings, and a Python float is the exact      *)
(* fraction num/scale with a sign, or inf, or nan.                         *)
(***************************************************************************)
EXTENDS Integers, Sequences, FiniteSets, TLC

\* ------------------------------------------------------------ constants

\* client.py:12
DEFAULT_RETRY_RATE_LIMIT == 360

\* client.py:81, max_tries of the rate-limit layer
MaxTries429 == 5

\* client.py:87, max_tries of the transient-network layer
MaxTries5xx == 5

\* How many make_request calls one client serves in the model.
MaxRequests == 2

\* How many token exchanges one client makes in the model, the one of its
\* construction included.
MaxTokenPosts == 2

RATE_LIMIT_HEADER == "X-EBAY-C-RATE-LIMIT"

\* ------------------------------------------------------------ Python values

PyNone == [type |-> "NoneType"]

PyStr(s) == [type |-> "str", s |-> s]

PyInt(n) == [type |-> "int", n |-> n]

PyChars(c) == [type |-> "chars", chars |-> c]

PyDict(d) == [type |-> "dict", items |-> d]

\* str(v), as "{}".format(v) renders it
Str(v) == IF v.type = "NoneType" THEN "None" ELSE v.s

\* "Bearer {}".format(v)
FormatBearer(v) == "Bearer " \o Str(v)

\* ------------------------------------------------------------ float() and int()

Digits == {"0", "1", "2", "3", "4", "5", "6", "7", "8", "9"}

DigitVal(c) ==
    CASE c = "0" -> 0 [] c = "1" -> 1 [] c = "2" -> 2 [] c = "3" -> 3
      [] c = "4" -> 4 [] c = "5" -> 5 [] c = "6" -> 6 [] c = "7" -> 7
      [] c = "8" -> 8 [] c = "9" -> 9

IsDigits(s) == \A i \in 1..Len(s) : s[i] \in Digits

RECURSIVE DigitsValue(_)
DigitsValue(s) ==
    IF s = <<>> THEN 0
    ELSE DigitsValue(SubSeq(s, 1, Len(s) - 1)) * 10 + DigitVal(s[Len(s)])

RECURSIVE Pow10(_)
Pow10(n) == IF n = 0 THEN 1 ELSE 10 * Pow10(n - 1)

FloatFinite(neg, num, scale) ==
    [exc |-> "none", kind |-> "finite", neg |-> neg, num |-> num, scale |-> scale]

FloatSpecial(kind, neg) ==
    [exc |-> "none", kind |-> kind, neg |-> neg, num |-> 0, scale |-> 1]

FloatError(exc) ==
    [exc |-> exc, kind |-> "error", neg |-> FALSE, num |-> 0, scale |-> 1]

\* float(s) of a str: an optional sign, then inf, nan, or decimal digits with
\* at most one point; anything else is a ValueError.
FloatOfChars(s) ==
    LET signed == Len(s) > 0 /\ s[1] \in {"-", "+"}
        neg == Len(s) > 0 /\ s[1] = "-"
        body == IF signed THEN Tail(s) ELSE s
        dots == {i \in 1..Len(body) : body[i] = "."}
    IN  IF body = <<"i", "n", "f">> THEN FloatSpecial("inf", neg)
        ELSE IF body = <<"n", "a", "n">> THEN FloatSpecial("nan", neg)
        ELSE IF dots = {}
        THEN IF Len(body) > 0 /\ IsDigits(body)
             THEN FloatFinite(neg, DigitsValue(body), 1)
             ELSE FloatError("ValueError")
        ELSE IF Cardinality(dots) = 1
        THEN LET i == CHOOSE j \in dots : TRUE
                 ip == SubSeq(body, 1, i - 1)
                 fp == SubSeq(body, i + 1, Len(body))
             IN  IF IsDigits(ip) /\ IsDigits(fp) /\ Len(ip) + Len(fp) > 0
                 THEN FloatFinite(neg, DigitsValue(ip \o fp), Pow10(Len(fp)))
                 ELSE FloatError("ValueError")
        ELSE FloatError("ValueError")

\* float(v)
FloatOf(v) ==
    CASE v.type = "chars" -> FloatOfChars(v.chars)
      [] v.type = "int" ->
            FloatFinite(v.n < 0, IF v.n < 0 THEN -v.n ELSE v.n, 1)
      [] OTHER -> FloatError("TypeError")

\* int(f) of a float: truncation toward zero; inf and nan raise.
IntOf(f) ==
    CASE f.kind = "inf" -> [exc |-> "OverflowError", n |-> 0]
      [] f.kind = "nan" -> [exc |-> "ValueError", n |-> 0]
      [] OTHER ->
            [exc |-> "none",
             n |-> IF f.neg THEN -(f.num \div f.scale) ELSE f.num \div f.scale]

\* ------------------------------------------------------------ inputs

Tokens == {"tokA", "tokB"}

\* JSON bodies the token endpoint answers with: access_token beside an
\* unrelated "token" key.
TokenBodies == {[access_token |-> t, token |-> "unrelated"] : t \in Tokens}

\* (AUTH_URL, method, params, body) as make_request receives them
Requests ==
    {[url |-> "https://api.ebay.com/sell/fulfillment/v1/order", method |-> "GET",
      params |-> PyNone, body |-> PyNone],
     [url |-> "https://dummy-url.com", method |-> "POST",
      params |-> PyDict([a |-> "b"]), body |-> PyDict([x |-> "y"])]}

NoHeaders == [n \in {} |-> <<>>]

\* Response headers of a 429: none, the header the code reads with several
\* texts, and the header the tests send.
RateLimitHeaders ==
    {NoHeaders,
     RATE_LIMIT_HEADER :> <<"1", "2", ".", "0">>,
     RATE_LIMIT_HEADER :> <<"0">>,
     RATE_LIMIT_HEADER :> <<"-", "5">>,
     RATE_LIMIT_HEADER :> <<"g", "a", "r", "b", "a", "g", "e">>,
     RATE_LIMIT_HEADER :> <<"i", "n", "f">>,
     "X-RateLimit-Reset" :> <<"1", "0">>}

Response(status, headers, text, json) ==
    [kind |-> "response", status |-> status, headers |-> headers,
     text |-> text, json |-> json]

NoJson == [none |-> TRUE]

\* What one requests.request call can end in: a response, or a
\* ConnectionError raised by the transport.
Outcomes ==
    {Response(200, NoHeaders, "{\"data\": \"ok\"}", [data |-> "ok"]),
     Response(200, NoHeaders, "{\"orders\": []}", [orders |-> <<>>])}
    \cup {Response(429, h, "Too Many Requests", NoJson) : h \in RateLimitHeaders}
    \cup {Response(s, NoHeaders, "Server Error", NoJson) : s \in {500, 599}}
    \cup {Response(400, NoHeaders, "Bad Request", NoJson),
          Response(401, NoHeaders, "Unauthorized", NoJson),
          Response(600, NoHeaders, "Odd", NoJson)}
    \cup {[kind |-> "ConnectionError", status |-> 0, headers |-> NoHeaders,
           text |-> "", json |-> NoJson]}

NoOutcome ==
    [kind |-> "none", status |-> 0, headers |-> NoHeaders, text |-> "",
     json |-> NoJson]

NoRequest == [url |-> "", method |-> "", params |-> PyNone, body |-> PyNone]

NoSent ==
    [method |-> "", url |-> "", headers |-> NoHeaders, params |-> PyNone,
     json |-> PyNone]

Pending == [kind |-> "pending", exc |-> "none", msg |-> "", value |-> NoJson]

Returned(v) == [kind |-> "return", exc |-> "none", msg |-> "", value |-> v]

Raised(exc, msg) == [kind |-> "raise", exc |-> exc, msg |-> msg, value |-> NoJson]

\* ------------------------------------------------------------ _call

\* authorize: data = response.json(); self.token = data['access_token']
AuthorizeStores(data) == data.access_token

\* authorize has no return statement
AuthorizeReturns(data) == PyNone

\* BuildRequest with method and url in each other's place
BuildRequestSwapped(r, tok) ==
    [method |-> r.url, url |-> r.method,
     headers |-> ("Content-Type" :> "application/json")
                 @@ ("Authorization" :> FormatBearer(tok)),
     params |-> r.params, json |-> r.body]

\* requests.request(method, AUTH_URL, headers=..., params=params, json=body)
BuildRequest(r, tok) ==
    [method |-> r.method, url |-> r.url,
     headers |-> ("Content-Type" :> "application/json")
                 @@ ("Authorization" :> FormatBearer(tok)),
     params |-> r.params, json |-> r.body]

\* resp.headers.get(name, default)
HeadersGet(h, name, default) ==
    IF name \in DOMAIN h THEN PyChars(h[name]) ELSE default

\* Is5xx taking every client and server error status as retryable
Is4xxOr5xx(status) == status >= 400 /\ status < 600

\* Is5xx with the lower comparison strict
Is5xxAbove500(status) == status > 500 /\ status < 600

\* resp.status_code >= 500 and resp.status_code < 600
Is5xx(status) == status >= 500 /\ status < 600

\* except (TypeError, ValueError)
RetryAfterCaught == {"TypeError", "ValueError"}

\* The 429 branch: the exception that leaves it and the value of
\* self._retry_after after it (ra is the value before).
RateLimitBranch(headers, ra) ==
    LET v == HeadersGet(headers, RATE_LIMIT_HEADER, PyInt(DEFAULT_RETRY_RATE_LIMIT))
        f == FloatOf(v)
        i == IntOf(f)
    IN  IF f.exc \in RetryAfterCaught
        THEN [exc |-> "Server429Error", retry_after |-> DEFAULT_RETRY_RATE_LIMIT]
        ELSE IF f.exc # "none" THEN [exc |-> f.exc, retry_after |-> ra]
        ELSE IF i.exc \in RetryAfterCaught
        THEN [exc |-> "Server429Error", retry_after |-> DEFAULT_RETRY_RATE_LIMIT]
        ELSE IF i.exc # "none" THEN [exc |-> i.exc, retry_after |-> ra]
        ELSE [exc |-> "Server429Error", retry_after |-> i.n]

\* CallResult with self._retry_after put back to the default by a 200
CallResultResetsOn200(out, ra) ==
    IF out.kind = "ConnectionError"
    THEN [exc |-> "ConnectionError", msg |-> "", retry_after |-> ra]
    ELSE IF Is5xx(out.status)
    THEN [exc |-> "Server5xxError", msg |-> "", retry_after |-> ra]
    ELSE IF out.status = 429
    THEN LET b == RateLimitBranch(out.headers, ra)
         IN  [exc |-> b.exc, msg |-> "", retry_after |-> b.retry_after]
    ELSE IF out.status # 200
    THEN [exc |-> "RuntimeError", msg |-> out.text, retry_after |-> ra]
    ELSE [exc |-> "none", msg |-> "", retry_after |-> DEFAULT_RETRY_RATE_LIMIT]

\* One run of _call on the outcome of its requests.request: the exception it
\* raises ("none": it returns resp), its message, and self._retry_after after.
CallResult(out, ra) ==
    IF out.kind = "ConnectionError"
    THEN [exc |-> "ConnectionError", msg |-> "", retry_after |-> ra]
    ELSE IF Is5xx(out.status)
    THEN [exc |-> "Server5xxError", msg |-> "", retry_after |-> ra]
    ELSE IF out.status = 429
    THEN LET b == RateLimitBranch(out.headers, ra)
         IN  [exc |-> b.exc, msg |-> "", retry_after |-> b.retry_after]
    ELSE IF out.status # 200
    THEN [exc |-> "RuntimeError", msg |-> out.text, retry_after |-> ra]
    ELSE [exc |-> "none", msg |-> "", retry_after |-> ra]

\* return response.json()
MakeRequestReturns(resp) == resp.json

\* ------------------------------------------------------------ backoff layers

\* InnerCatches with RuntimeError among the retried exceptions
InnerCatchesRuntimeError(exc) ==
    exc \in {"ConnectionError", "Server5xxError", "RuntimeError"}

\* on_exception(backoff.expo, (ConnectionError, Server5xxError), max_tries=5)
InnerCatches(exc) == exc \in {"ConnectionError", "Server5xxError"}

\* on_exception(self._rate_limit_backoff, Server429Error, max_tries=5, jitter=None)
OuterCatches(exc) == exc = "Server429Error"

\* MaxTriesExceeded counting the retries, not the tries
MaxTriesExceededCountsRetries(tries, maxTries) == tries - 1 = maxTries

\* MaxTriesExceeded one try late
MaxTriesExceededLate(tries, maxTries) == tries = maxTries + 1

\* backoff's retry loop gives up when tries == max_tries
MaxTriesExceeded(tries, maxTries) == tries = maxTries

\* backoff.expo: factor * base ** n, with base 2 and factor 1
RECURSIVE Expo(_)
Expo(n) == IF n = 0 THEN 1 ELSE 2 * Expo(n - 1)

\* backoff.full_jitter, the default jitter: random.uniform(0, value), of
\* which the model draws the two ends
FullJitter(value) == {0, value}

\* RateLimitBackoffYield reading self._retry_after once, when primed
RateLimitBackoffYieldPrimed(primed, current) == primed

\* _rate_limit_backoff resumed by backoff: it yields self._retry_after as it
\* is now (current), not the value it yielded when it was primed (primed).
RateLimitBackoffYield(primed, current) == current

\* time.sleep(seconds) raises ValueError for a negative length
SleepRaises(seconds) == seconds < 0

\* ------------------------------------------------------------ the run of main

\* No run of main: the client is used on its own.
NoRun == [stage |-> "none"]

\* The stream types a runner is given, in declaration order, each with its
\* name and the names in its REQUIRES.
OrdersType == [name |-> "orders", requires |-> {}]

RefundsType == [name |-> "refunds", requires |-> {"orders"}]

AvailableChoices == {<<OrdersType>>, <<OrdersType, RefundsType>>}

CatalogNames == {"orders", "refunds"}

CatalogEntries == [stream : CatalogNames, selected : BOOLEAN]

\* args.catalog.streams: entries of distinct streams, in any order
Catalogs ==
    {<<>>}
    \cup {<<e>> : e \in CatalogEntries}
    \cup {c \in {<<e, f>> : e \in CatalogEntries, f \in CatalogEntries} :
            c[1].stream # c[2].stream}

\* tap_ebay.streams.base.is_stream_selected
IsStreamSelected(entry) == entry.selected

\* BaseStream.matches_catalog
MatchesCatalog(type, entry) == type.name = entry.stream

\* BaseStream.requirements_met: every stream in REQUIRES is selected
RequirementsMet(type, catalog) ==
    \A r \in type.requires :
        \E i \in 1..Len(catalog) :
            catalog[i].stream = r /\ IsStreamSelected(catalog[i])

StreamsOk(streams) == [exc |-> "none", stream |-> "", requires |-> {}, streams |-> streams]

\* raise RuntimeError("{} requires that the following are selected: {}"
\*                    .format(stream_catalog.stream, ",".join(REQUIRES)))
StreamsError(entry, type, streams) ==
    [exc |-> "RuntimeError", stream |-> entry.stream, requires |-> type.requires,
     streams |-> streams]

\* RequirementFailure with the check left out
RequirementFailureNever(type, catalog) == FALSE

\* if not available_stream.requirements_met(self.catalog)
RequirementFailure(type, catalog) == ~RequirementsMet(type, catalog)

\* The inner loop of get_streams_to_replicate, from available[j] on
RECURSIVE MatchAvailable(_, _, _, _, _)
MatchAvailable(entry, catalog, available, j, acc) ==
    IF j > Len(available) THEN StreamsOk(acc)
    ELSE IF MatchesCatalog(available[j], entry)
    THEN IF RequirementFailure(available[j], catalog)
         THEN StreamsError(entry, available[j], acc)
         ELSE MatchAvailable(entry, catalog, available, j + 1,
                             Append(acc, available[j].name))
    ELSE MatchAvailable(entry, catalog, available, j + 1, acc)

\* The outer loop of get_streams_to_replicate, from catalog[i] on
RECURSIVE WalkCatalog(_, _, _, _)
WalkCatalog(catalog, available, i, acc) ==
    IF i > Len(catalog) THEN StreamsOk(acc)
    ELSE IF ~IsStreamSelected(catalog[i])
    THEN WalkCatalog(catalog, available, i + 1, acc)
    ELSE LET r == MatchAvailable(catalog[i], catalog, available, 1, acc)
         IN  IF r.exc # "none" THEN r
             ELSE WalkCatalog(catalog, available, i + 1, r.streams)

\* The available streams with a selected catalog entry, as a walk of the
\* stream types would list them
RECURSIVE WalkAvailable(_, _, _, _)
WalkAvailable(catalog, available, j, acc) ==
    IF j > Len(available) THEN StreamsOk(acc)
    ELSE LET hits == {i \in 1..Len(catalog) :
                        /\ IsStreamSelected(catalog[i])
                        /\ MatchesCatalog(available[j], catalog[i])}
         IN  IF hits = {} THEN WalkAvailable(catalog, available, j + 1, acc)
             ELSE IF RequirementFailure(available[j], catalog)
             THEN StreamsError(catalog[CHOOSE i \in hits : TRUE], available[j], acc)
             ELSE WalkAvailable(catalog, available, j + 1,
                                Append(acc, available[j].name))

\* get_streams_to_replicate with its two loops in each other's place
GetStreamsInDeclarationOrder(catalog, available) ==
    WalkAvailable(catalog, available, 1, <<>>)

\* EbayRunner.get_streams_to_replicate
GetStreamsToReplicate(catalog, available) == WalkCatalog(catalog, available, 1, <<>>)

\* BaseStream.generate_catalog: a list of one entry for the stream
BaseGenerateCatalog(type) ==
    <<[stream |-> type.name,
       metadata |-> ("table-key-properties" :> "orderId")]>>

\* OrdersStream.generate_catalog: the root metadata of super()'s one entry
\* gets its replication keys set
OrdersGenerateCatalog(type) ==
    LET entries == BaseGenerateCatalog(type)
        root == entries[1].metadata
        inclusion == IF "inclusion" \in DOMAIN root THEN root["inclusion"]
                     ELSE "available"
    IN  <<[entries[1] EXCEPT !.metadata =
                ("inclusion" :> inclusion)
                @@ ("replication-method" :> "FULL_TABLE")
                @@ ("forced-replication-method" :> "FULL_TABLE")
                @@ ("valid-replication-keys" :> "")
                @@ root]>>
       \o Tail(entries)

\* stream.generate_catalog() of a stream type
GenerateCatalog(type) ==
    IF type.name = "orders" THEN OrdersGenerateCatalog(type)
    ELSE BaseGenerateCatalog(type)

RECURSIVE CatalogOfTypes(_, _)
CatalogOfTypes(available, j) ==
    IF j > Len(available) THEN <<>>
    ELSE GenerateCatalog(available[j]) \o CatalogOfTypes(available, j + 1)

\* do_discover listing only the stream types the catalog selects
DiscoverSelectedOnly(available, catalog) ==
    [streams |->
        CatalogOfTypes(
            SelectSeq(available,
                      LAMBDA t : \E i \in 1..Len(catalog) :
                                    /\ catalog[i].stream = t.name
                                    /\ catalog[i].selected),
            1)]

\* EbayRunner.do_discover: the document {"streams": catalog} it dumps
DiscoverDocument(available, catalog) == [streams |-> CatalogOfTypes(available, 1)]

NoDocument == [streams |-> <<>>, none |-> TRUE]

\* What the token endpoint answers: 200 with a token, or an error status
TokenResponses ==
    {[status |-> 200, json |-> b] : b \in TokenBodies}
    \cup {[status |-> st, json |-> [error |-> "invalid_grant"]] : st \in {400, 401, 500}}

\* response.raise_for_status()
RaiseForStatus(status) == status >= 400 /\ status < 600

\* authorize without raise_for_status
AuthorizeOutcomeUnchecked(resp, tok) ==
    IF "access_token" \in DOMAIN resp.json
    THEN [exc |-> "none", token |-> AuthorizeStores(resp.json)]
    ELSE [exc |-> "KeyError", token |-> tok]

\* EbayClient.authorize on the token endpoint's answer: the exception it
\* raises and self.token after it (tok before it)
AuthorizeOutcome(resp, tok) ==
    IF RaiseForStatus(resp.status) THEN [exc |-> "HTTPError", token |-> tok]
    ELSE IF "access_token" \in DOMAIN resp.json
    THEN [exc |-> "none", token |-> AuthorizeStores(resp.json)]
    ELSE [exc |-> "KeyError", token |-> tok]

\* How stream.sync() can end: it returns, or it raises what make_request
\* raised, or an OSError of its own output (a broken pipe, errno 32).
\* requests' ConnectionError is an OSError built without an errno.
StreamSyncEnds ==
    {[exc |-> "none", errno |-> PyNone]}
    \cup {[exc |-> x, errno |-> PyNone] :
            x \in {"Server5xxError", "Server429Error", "RuntimeError",
                   "OverflowError", "ValueError", "ConnectionError"}}
    \cup {[exc |-> "BrokenPipeError", errno |-> PyInt(32)]}

\* The exception classes that except OSError catches
IsOSError(exc) == exc \in {"ConnectionError", "BrokenPipeError"}

\* do_sync's handlers wrapping what is not an OSError in a RuntimeError
OnSyncFailureWraps(end) ==
    IF IsOSError(end.exc) THEN [do |-> "exit", code |-> end.errno, exc |-> "SystemExit"]
    ELSE [do |-> "raise", code |-> PyNone, exc |-> "RuntimeError"]

\* do_sync's handlers: except OSError: exit(e.errno); except Exception: raise e
OnSyncFailure(end) ==
    IF IsOSError(end.exc) THEN [do |-> "exit", code |-> end.errno, exc |-> "SystemExit"]
    ELSE [do |-> "raise", code |-> PyNone, exc |-> end.exc]

\* The process's exit status after exit(code): None is 0
ExitStatus(code) == IF code.type = "NoneType" THEN 0 ELSE code.n % 256

\* The exit status of a process ended by an exception that main propagates
UNCAUGHT_EXIT == 1

\* ------------------------------------------------------------ state

VARIABLES
    token,          \* self.token
    access_token,   \* self.access_token
    retry_after,    \* self._retry_after
    pc,             \* "idle", "call", "sleep5xx", "sleep429", "returned", "raised"
    req,            \* the arguments of the make_request in progress
    outerTries,     \* tries of the rate-limit layer's retry loop
    innerTries,     \* tries of the transient layer's retry loop
    genValue,       \* the value _rate_limit_backoff last yielded
    expoN,          \* n of the backoff.expo generator
    wait,           \* seconds handed to time.sleep
    lastSent,       \* the last requests.request call's arguments
    lastOutcome,    \* what that call ended in (NoOutcome once the next try starts)
    callExc,        \* the exception that _call raised, "none" if it returned
    result,         \* how make_request ended
    count,          \* history of the make_request in progress
    requestsMade,   \* make_request calls so far
    tokenPosts,     \* POSTs to the token endpoint so far
    run             \* the run of main: its arguments, its place, its effects

vars ==
    <<token, access_token, retry_after, pc, req, outerTries, innerTries, genValue,
      expoN, wait, lastSent, lastOutcome, callExc, result, count,
      requestsMade, tokenPosts, run>>

clientVars == <<token, access_token>>

\* A status that is neither 200, nor 429, nor in [500,599]
FatalStatus(out) ==
    /\ out.kind = "response"
    /\ out.status \notin {200, 429}
    /\ out.status \notin 500..599

\* calls: HTTP calls made; s429: of them answered 429; transient: ended in a
\* 5xx status or a ConnectionError; run: the same, since the transient layer
\* was last entered; fatal: answered with a fatal status; all429, all5xx: every
\* call so far was answered 429, respectively with a status in [500,599].
NoCount ==
    [calls |-> 0, s429 |-> 0, transient |-> 0, run |-> 0, fatal |-> 0,
     all429 |-> TRUE, all5xx |-> TRUE]

\* EbayClient.__init__
Init ==
    \E data \in TokenBodies :
        /\ token = AuthorizeStores(data)
        /\ access_token = AuthorizeReturns(data)
        /\ retry_after = DEFAULT_RETRY_RATE_LIMIT
        /\ pc = "idle"
        /\ req = NoRequest
        /\ outerTries = 0
        /\ innerTries = 0
        /\ genValue = 0
        /\ expoN = 0
        /\ wait = 0
        /\ lastSent = NoSent
        /\ lastOutcome = NoOutcome
        /\ callExc = "none"
        /\ result = Pending
        /\ count = NoCount
        /\ requestsMade = 0
        /\ tokenPosts = 1
        /\ run = NoRun

\* client.authorize() called again by main
Authorize ==
    /\ pc = "idle"
    /\ tokenPosts < MaxTokenPosts
    /\ tokenPosts' = tokenPosts + 1
    /\ \E data \in TokenBodies : token' = AuthorizeStores(data)
    /\ UNCHANGED <<run, access_token, retry_after, pc, req, outerTries, innerTries,
                   genValue, expoN, wait, lastSent, lastOutcome, callExc, result,
                   count, requestsMade>>

\* make_request entered: both retry loops start, and backoff primes the
\* rate-limit generator, which runs to its first yield.
StartRequest ==
    /\ pc = "idle"
    /\ requestsMade < MaxRequests
    /\ \E r \in Requests : req' = r
    /\ requestsMade' = requestsMade + 1
    /\ outerTries' = 1
    /\ innerTries' = 1
    /\ genValue' = retry_after
    /\ expoN' = 0
    /\ wait' = 0
    /\ lastSent' = NoSent
    /\ lastOutcome' = NoOutcome
    /\ callExc' = "none"
    /\ result' = Pending
    /\ count' = NoCount
    /\ pc' = "call"
    /\ UNCHANGED <<run, tokenPosts, clientVars, retry_after>>

Tally(c, out) ==
    LET is429 == out.kind = "response" /\ out.status = 429
        is5xx == out.kind = "response" /\ out.status \in 500..599
        isTransient == is5xx \/ out.kind = "ConnectionError"
    IN  [calls |-> c.calls + 1,
         s429 |-> c.s429 + (IF is429 THEN 1 ELSE 0),
         transient |-> c.transient + (IF isTransient THEN 1 ELSE 0),
         run |-> c.run + (IF isTransient THEN 1 ELSE 0),
         fatal |-> c.fatal + (IF FatalStatus(out) THEN 1 ELSE 0),
         all429 |-> c.all429 /\ is429,
         all5xx |-> c.all5xx /\ is5xx]

\* One run of _call and what the two retry loops around it do with its end.
HttpCall ==
    /\ pc = "call"
    /\ \E out \in Outcomes :
        LET c == CallResult(out, retry_after)
            innerRetries ==
                InnerCatches(c.exc) /\ ~MaxTriesExceeded(innerTries, MaxTries5xx)
            outerRetries ==
                /\ ~innerRetries
                /\ OuterCatches(c.exc)
                /\ ~MaxTriesExceeded(outerTries, MaxTries429)
        IN  /\ lastSent' = BuildRequest(req, access_token)
            /\ lastOutcome' = out
            /\ callExc' = c.exc
            /\ retry_after' = c.retry_after
            /\ count' = Tally(count, out)
            /\ IF c.exc = "none"
               THEN /\ pc' = "returned"
                    /\ result' = Returned(MakeRequestReturns(out))
                    /\ UNCHANGED <<wait, expoN, genValue>>
               ELSE IF innerRetries
               THEN /\ pc' = "sleep5xx"
                    /\ \E w \in FullJitter(Expo(expoN)) : wait' = w
                    /\ expoN' = expoN + 1
                    /\ UNCHANGED <<result, genValue>>
               ELSE IF outerRetries
               THEN /\ pc' = "sleep429"
                    /\ genValue' = RateLimitBackoffYield(genValue, c.retry_after)
                    /\ wait' = genValue'
                    /\ UNCHANGED <<result, expoN>>
               ELSE /\ pc' = "raised"
                    /\ result' = Raised(c.exc, c.msg)
                    /\ UNCHANGED <<wait, expoN, genValue>>
    /\ UNCHANGED <<run, tokenPosts, clientVars, req, outerTries, innerTries, requestsMade>>

\* time.sleep(seconds) of the transient layer, then its next try
Sleep5xx ==
    /\ pc = "sleep5xx"
    /\ innerTries' = innerTries + 1
    /\ wait' = 0
    /\ lastOutcome' = NoOutcome
    /\ callExc' = "none"
    /\ pc' = "call"
    /\ UNCHANGED <<run, tokenPosts, clientVars, retry_after, req, outerTries, genValue, expoN,
                   lastSent, result, count, requestsMade>>

\* time.sleep(seconds) of the rate-limit layer, then its next try, which
\* enters the transient layer's retry loop anew.
Sleep429 ==
    /\ pc = "sleep429"
    /\ IF SleepRaises(wait)
       THEN /\ pc' = "raised"
            /\ result' = Raised("ValueError", "sleep length must be non-negative")
            /\ UNCHANGED <<outerTries, innerTries, expoN, count, wait,
                           lastOutcome, callExc>>
       ELSE /\ pc' = "call"
            /\ outerTries' = outerTries + 1
            /\ innerTries' = 1
            /\ expoN' = 0
            /\ count' = [count EXCEPT !.run = 0]
            /\ wait' = 0
            /\ lastOutcome' = NoOutcome
            /\ callExc' = "none"
            /\ UNCHANGED result
    /\ UNCHANGED <<run, tokenPosts, clientVars, retry_after, req, genValue, lastSent, requestsMade>>

\* make_request has returned or raised: control is back with the caller
Finish ==
    /\ pc \in {"returned", "raised"}
    /\ pc' = "idle"
    /\ UNCHANGED <<run, tokenPosts, clientVars, retry_after, req, outerTries, innerTries, genValue,
                   expoN, wait, lastSent, lastOutcome, callExc, result, count,
                   requestsMade>>

Next == Authorize \/ StartRequest \/ HttpCall \/ Sleep5xx \/ Sleep429 \/ Finish

Spec == Init /\ [][Next]_vars

\* A make_request in progress goes on: the thread is never descheduled for
\* good, requests.request comes back with a response or a ConnectionError,
\* and time.sleep comes back. The caller need not call again.
InProgress == HttpCall \/ Sleep5xx \/ Sleep429

FairSpec == Spec /\ WF_vars(InProgress)

\* ------------------------------------------------------------ main

\* What no step of main itself touches: the state of a make_request
requestVars ==
    <<pc, req, outerTries, innerTries, genValue, expoN, wait, lastSent,
      lastOutcome, callExc, result, count, requestsMade>>

\* main entered: parse_args has given config, state, catalog and the mode;
\* no client exists yet.
RunInit ==
    /\ token = ""
    /\ access_token = PyNone
    /\ retry_after = DEFAULT_RETRY_RATE_LIMIT
    /\ pc = "idle"
    /\ req = NoRequest
    /\ outerTries = 0
    /\ innerTries = 0
    /\ genValue = 0
    /\ expoN = 0
    /\ wait = 0
    /\ lastSent = NoSent
    /\ lastOutcome = NoOutcome
    /\ callExc = "none"
    /\ result = Pending
    /\ count = NoCount
    /\ requestsMade = 0
    /\ tokenPosts = 0
    /\ \E d \in BOOLEAN, c \in Catalogs, a \in AvailableChoices :
        run = [stage |-> "start", discover |-> d, catalog |-> c, available |-> a,
               streams |-> <<>>, idx |-> 1, state |-> {}, synced |-> <<>>,
               attempted |-> <<>>, saves |-> <<>>, output |-> NoDocument,
               exc |-> "none", msg |-> StreamsOk(<<>>), exit |-> -1,
               resource |-> 0, failedAt |-> 0, failure |-> "none",
               authFailedAt |-> 0, tokenBefore |-> ""]

\* An exception leaves main: handle_top_exception logs it and raises it again
Crash(r, exc) == [r EXCEPT !.stage = "crashed", !.exc = exc, !.exit = UNCAUGHT_EXIT]

\* client = EbayClient(args.config)
Construct ==
    /\ run.stage = "start"
    /\ tokenPosts' = tokenPosts + 1
    /\ retry_after' = DEFAULT_RETRY_RATE_LIMIT
    /\ \E resp \in TokenResponses :
        LET a == AuthorizeOutcome(resp, token)
        IN  /\ token' = a.token
            /\ IF a.exc = "none"
               THEN /\ access_token' = AuthorizeReturns(resp.json)
                    /\ run' = [run EXCEPT !.stage = "constructed"]
               ELSE /\ access_token' = access_token
                    /\ run' = [Crash(run, a.exc) EXCEPT !.authFailedAt = 1,
                                                        !.tokenBefore = token]
    /\ UNCHANGED requestVars

\* client.authorize()
MainAuthorize ==
    /\ run.stage = "constructed"
    /\ tokenPosts' = tokenPosts + 1
    /\ \E resp \in TokenResponses :
        LET a == AuthorizeOutcome(resp, token)
        IN  /\ token' = a.token
            /\ IF a.exc = "none"
               THEN run' = [run EXCEPT !.stage = "authorized"]
               ELSE run' = [Crash(run, a.exc) EXCEPT !.authFailedAt = 2,
                                                     !.tokenBefore = token]
    /\ UNCHANGED <<access_token, retry_after, requestVars>>

\* runner.do_discover()
DoDiscover ==
    /\ run.stage = "authorized"
    /\ run.discover
    /\ run' = [run EXCEPT !.output = DiscoverDocument(run.available, run.catalog),
                          !.stage = "exited", !.exit = 0]
    /\ UNCHANGED <<tokenPosts, clientVars, retry_after, requestVars>>

\* runner.do_sync() up to its loop: streams = self.get_streams_to_replicate()
StartSync ==
    /\ run.stage = "authorized"
    /\ ~run.discover
    /\ LET r == GetStreamsToReplicate(run.catalog, run.available)
       IN  IF r.exc # "none"
           THEN run' = [Crash(run, r.exc) EXCEPT !.msg = r]
           ELSE run' = [run EXCEPT !.stage = "syncing", !.streams = r.streams]
    /\ UNCHANGED <<tokenPosts, clientVars, retry_after, requestVars>>

\* One round of do_sync's loop: stream.sync() and the handlers around it
SyncStream ==
    /\ run.stage = "syncing"
    /\ run.idx <= Len(run.streams)
    /\ \E end \in StreamSyncEnds :
        LET name == run.streams[run.idx]
            tried == [run EXCEPT !.attempted = Append(@, name),
                                 !.resource = @ + 1]
            h == OnSyncFailure(end)
        IN  IF end.exc = "none"
            THEN run' = [tried EXCEPT !.state = @ \cup {name},
                                      !.synced = Append(@, name),
                                      !.idx = @ + 1]
            ELSE IF h.do = "exit"
            THEN run' = [tried EXCEPT !.stage = "exited", !.exc = h.exc,
                                      !.exit = ExitStatus(h.code),
                                      !.failedAt = run.idx, !.failure = end.exc]
            ELSE run' = [Crash(tried, h.exc) EXCEPT !.failedAt = run.idx,
                                                    !.failure = end.exc]
    /\ UNCHANGED <<tokenPosts, clientVars, retry_after, requestVars>>

\* save_state(self.state), after the loop
SaveState ==
    /\ run.stage = "syncing"
    /\ run.idx > Len(run.streams)
    /\ run' = [run EXCEPT !.saves = Append(@, run.state), !.stage = "exited",
                          !.exit = 0]
    /\ UNCHANGED <<tokenPosts, clientVars, retry_after, requestVars>>

RunNext ==
    Construct \/ MainAuthorize \/ DoDiscover \/ StartSync \/ SyncStream \/ SaveState

RunSpec == RunInit /\ [][RunNext]_vars

\* ------------------------------------------------------------ properties

Done == pc \in {"returned", "raised"}

\* The most transient failures one make_request can see: every rate-limit
\* retry but the last follows MaxTries5xx - 1 of them, the last try has all.
MaxTransient == (MaxTries429 - 1) * (MaxTries5xx - 1) + MaxTries5xx

\* C1 as stated: within one make_request no more than 5 HTTP calls end in a
\* 5xx status or a connection error, whatever 429 responses are interleaved.
C1_TransientBudgetNotReplenished == count.transient <= MaxTries5xx

\* C1 amended: no more than 5 HTTP calls end in a 5xx status or a connection
\* error between two rate-limit retries, the fifth propagates the error, and
\* in the whole make_request there are at most 4 * 4 + 5 = 21 of them.
C1_TransientBudgetPerEntry ==
    /\ count.run <= MaxTries5xx
    /\ count.run = MaxTries5xx =>
            /\ pc \in {"raised", "idle"}
            /\ result.kind = "raise"
            /\ result.exc \in {"Server5xxError", "ConnectionError"}
    /\ count.transient <= MaxTransient

C1_Witness == pc = "raised" /\ count.transient = MaxTransient /\ count.s429 = 4

\* C2: every resource request carries Authorization: Bearer <t>, t being the
\* access_token of the most recent token exchange of authorize.
C2_BearerIsExchangedToken ==
    lastSent # NoSent => lastSent.headers["Authorization"] = "Bearer " \o token

\* C3: retry_after is a positive integer in every reachable state.
C3_RetryAfterPositive == retry_after \in Nat \ {0}

\* What C4 expects of retry_after after a 429 with headers h
C4_Expected(h) ==
    IF RATE_LIMIT_HEADER \in DOMAIN h
    THEN LET f == FloatOfChars(h[RATE_LIMIT_HEADER])
         IN  IF f.exc = "none" /\ IntOf(f).exc = "none"
             THEN IntOf(f).n
             ELSE DEFAULT_RETRY_RATE_LIMIT
    ELSE DEFAULT_RETRY_RATE_LIMIT

\* C4: every 429, whatever its rate-limit header, is classified
\* Server429Error, with retry_after set to int(float(header)) when the header
\* is present and parsable and to the default 360 otherwise.
C4_Every429Classified ==
    (lastOutcome.kind = "response" /\ lastOutcome.status = 429) =>
        /\ callExc = "Server429Error"
        /\ retry_after = C4_Expected(lastOutcome.headers)

\* C5: the wait before a rate-limit retry is retry_after as it is then, the
\* value the 429 that triggered the retry has set.
C5_WaitIsCurrentRetryAfter ==
    pc = "sleep429" =>
        /\ wait = retry_after
        /\ lastOutcome.status = 429
        /\ retry_after = RateLimitBranch(lastOutcome.headers, retry_after).retry_after

C5_Witness ==
    /\ pc = "sleep429"
    /\ requestsMade = 1
    /\ outerTries = 3
    /\ wait = 12

\* C6: when every response is 429, make_request makes exactly 5 HTTP calls
\* and raises Server429Error; at most 4 responses 429 are retried.
C6_All429FiveCalls ==
    /\ (Done /\ count.all429 /\ count.calls > 0) =>
            /\ count.calls = MaxTries429
            /\ result = Raised("Server429Error", "")
    /\ count.s429 <= MaxTries429
    /\ count.s429 = MaxTries429 => pc \in {"raised", "idle"}

\* C7: when every response has a status in [500,599], make_request makes
\* exactly 5 HTTP calls and raises Server5xxError.
C7_All5xxFiveCalls ==
    (count.all5xx /\ count.calls > 0) =>
        /\ count.calls <= MaxTries5xx
        /\ count.calls = MaxTries5xx => pc \in {"raised", "idle"}
        /\ pc \in {"returned", "raised", "idle"} =>
                /\ count.calls = MaxTries5xx
                /\ result = Raised("Server5xxError", "")

C7_Witness ==
    /\ pc = "raised"
    /\ count.all5xx
    /\ count.calls = MaxTries5xx
    /\ lastOutcome.status = 599

\* C8: a make_request that has seen at most 4 responses 429 and at most 4
\* transient failures, and no fatal status, ends only by returning the body of
\* a 200.
C8_IndependentBudgetsSucceed ==
    (Done /\ count.s429 <= 4 /\ count.transient <= 4 /\ count.fatal = 0) =>
        /\ lastOutcome.status = 200
        /\ result = Returned(lastOutcome.json)

\* C9: a response whose status is neither 200, nor 429, nor in [500,599]
\* makes make_request raise a RuntimeError with the response's text, and it
\* is the last HTTP call of that make_request.
C9_FatalStatusStops ==
    /\ FatalStatus(lastOutcome) =>
            /\ pc \in {"raised", "idle"}
            /\ result = Raised("RuntimeError", lastOutcome.text)
    /\ count.fatal >= 1 => (count.fatal = 1 /\ FatalStatus(lastOutcome))

C9_Witness ==
    /\ pc = "raised"
    /\ lastOutcome.status = 401
    /\ count.calls = 4
    /\ count.s429 = 1

\* C10: when the first response is a 200, make_request returns its JSON body
\* after that one HTTP call, made with the given method, url, params and body.
C10_FirstResponse200 ==
    (count.calls = 1 /\ lastOutcome.status = 200) =>
        /\ pc \in {"returned", "idle"}
        /\ result = Returned(lastOutcome.json)
        /\ lastSent.method = req.method
        /\ lastSent.url = req.url
        /\ lastSent.params = req.params
        /\ lastSent.json = req.body

C10_Witness ==
    /\ pc = "returned"
    /\ count.calls = 1
    /\ req.method = "POST"
    /\ lastSent.params = PyDict([a |-> "b"])
    /\ result.value = [data |-> "ok"]

\* C18: after a 429 carrying X-RateLimit-Reset: "10", retry_after is 10 and
\* the wait before the retry is 10 seconds.
C18_RateLimitResetRespected ==
    (/\ lastOutcome.status = 429
     /\ "X-RateLimit-Reset" \in DOMAIN lastOutcome.headers
     /\ lastOutcome.headers["X-RateLimit-Reset"] = <<"1", "0">>) =>
        /\ retry_after = 10
        /\ pc = "sleep429" => wait = 10

\* C19: retry_after changes only in a step that receives a 429; it is kept
\* by every other response, by a connection error, and from one make_request
\* to the next.
C19_RetryAfterOnlyOn429 ==
    [][retry_after' # retry_after =>
            /\ pc = "call"
            /\ lastOutcome'.kind = "response"
            /\ lastOutcome'.status = 429]_vars

C19_Witness ==
    /\ requestsMade = 2
    /\ pc = "returned"
    /\ count.s429 = 0
    /\ count.transient >= 1
    /\ retry_after = 12

\* C20: make_request makes no token exchange and leaves the stored tokens as
\* they are, and a 401 ends it with RuntimeError at that call, without a retry.
C20_NoTokenExchangeInMakeRequest ==
    /\ [](lastOutcome.status = 401 =>
            /\ pc \in {"raised", "idle"}
            /\ result = Raised("RuntimeError", lastOutcome.text))
    /\ [][pc # "idle" =>
            /\ token' = token
            /\ access_token' = access_token
            /\ tokenPosts' = tokenPosts]_vars

C20_Witness ==
    /\ pc = "raised"
    /\ lastOutcome.status = 401
    /\ count.calls = 1
    /\ tokenPosts = 1
    /\ result.exc = "RuntimeError"

\* ------------------------------------------------------------ properties of main

\* Stream r has no selected entry in the catalog
Unselected(catalog, r) ==
    ~\E i \in 1..Len(catalog) : catalog[i].stream = r /\ catalog[i].selected

\* The prerequisites, unmet, of the selected entries of known streams
UnmetPrerequisites(catalog, available) ==
    {r \in CatalogNames :
        \E i \in 1..Len(catalog), j \in 1..Len(available) :
            /\ catalog[i].selected
            /\ available[j].name = catalog[i].stream
            /\ r \in available[j].requires
            /\ Unselected(catalog, r)}

SyncReached == ~run.discover /\ run.stage \in {"syncing", "exited", "crashed"}
                /\ run.authFailedAt = 0

ConfigurationError ==
    /\ run.stage = "crashed"
    /\ run.exc = "RuntimeError"
    /\ run.msg.exc = "RuntimeError"
    /\ \E r \in run.msg.requires : r \in UnmetPrerequisites(run.catalog, run.available)
    /\ run.attempted = <<>>

\* C11 as stated: with an unmet prerequisite the run fails with a
\* configuration error naming it, no stream synced, zero HTTP calls performed.
C11_ConfigErrorZeroHttpCalls ==
    (SyncReached /\ UnmetPrerequisites(run.catalog, run.available) # {}) =>
        /\ ConfigurationError
        /\ tokenPosts + run.resource + requestsMade = 0

\* C11 amended: with an unmet prerequisite the run fails with a configuration
\* error naming it, no stream synced and no resource request made; the two
\* token exchanges of main are the run's only HTTP calls.
C11_ConfigErrorNoResourceRequest ==
    (SyncReached /\ UnmetPrerequisites(run.catalog, run.available) # {}) =>
        /\ ConfigurationError
        /\ run.resource = 0
        /\ requestsMade = 0
        /\ tokenPosts = 2

C11_Witness ==
    /\ run.stage = "crashed"
    /\ run.msg.stream = "refunds"
    /\ run.msg.requires = {"orders"}
    /\ run.catalog = <<[stream |-> "orders", selected |-> FALSE],
                       [stream |-> "refunds", selected |-> TRUE]>>

StreamNames(entries) == [i \in 1..Len(entries) |-> entries[i].stream]

TypeNames(types) == [i \in 1..Len(types) |-> types[i].name]

Known(available, name) == \E j \in 1..Len(available) : available[j].name = name

\* The selected known streams in the order of the catalog's entries
SelectedInCatalogOrder(catalog, available) ==
    StreamNames(SelectSeq(catalog,
                          LAMBDA e : e.selected /\ Known(available, e.stream)))

\* The selected known streams in the order the stream types are declared
SelectedInDeclarationOrder(catalog, available) ==
    TypeNames(SelectSeq(available, LAMBDA t : ~Unselected(catalog, t.name)))

SyncSucceeded == ~run.discover /\ run.stage = "exited" /\ run.failedAt = 0

OnlySelectedAttempted ==
    \A i \in 1..Len(run.attempted) : ~Unselected(run.catalog, run.attempted[i])

\* C12 as stated: a successful sync run syncs the selected known streams,
\* each once, in the declaration order of the stream types.
C12_SyncedInDeclarationOrder ==
    /\ SyncSucceeded =>
            run.synced = SelectedInDeclarationOrder(run.catalog, run.available)
    /\ OnlySelectedAttempted

\* C12 amended: a successful sync run syncs the selected known streams, each
\* once, in the order their entries appear in the catalog; an unselected
\* stream is never synced.
C12_SyncedInCatalogOrder ==
    /\ SyncSucceeded =>
            /\ run.synced = SelectedInCatalogOrder(run.catalog, run.available)
            /\ run.attempted = run.synced
    /\ OnlySelectedAttempted

C12_Witness ==
    /\ SyncSucceeded
    /\ run.synced = <<"refunds", "orders">>
    /\ TypeNames(run.available) = <<"orders", "refunds">>

\* C13: the state is persisted after each stream that syncs successfully, so
\* what has been synced so far is always in the last state persisted.
C13_PersistedAfterEachStream ==
    (~run.discover /\ run.synced # <<>>) =>
        /\ run.saves # <<>>
        /\ \A i \in 1..Len(run.synced) : run.synced[i] \in run.saves[Len(run.saves)]

\* C14: a stream's failed sync ends the run, no later stream is synced, and a
\* failure that is not an OSError leaves do_sync as it was raised.
C14_FailureAborts ==
    run.failedAt > 0 =>
        /\ run.stage \in {"exited", "crashed"}
        /\ Len(run.attempted) = run.failedAt
        /\ Len(run.synced) = run.failedAt - 1
        /\ run.saves = <<>>
        /\ ~IsOSError(run.failure) => (run.stage = "crashed" /\ run.exc = run.failure)

C14_Witness ==
    /\ run.failedAt = 1
    /\ Len(run.streams) = 2
    /\ run.stage = "crashed"
    /\ run.exc = "Server5xxError"

\* C15: the exit status is 0 only when every selected stream synced; a stream
\* failing with an OSError gives a non-zero exit status, its error number;
\* any other failure ends the run with a non-zero status or an exception.
C15_ExitStatusTellsFailure ==
    (~run.discover /\ run.stage \in {"exited", "crashed"}) =>
        /\ run.exit = 0 => (run.failedAt = 0 /\ run.synced = run.streams)
        /\ (run.failedAt > 0 /\ IsOSError(run.failure)) => run.exit # 0
        /\ run.stage = "crashed" => run.exit # 0

\* C16: a token endpoint's error status makes authorize raise the HTTP error
\* after its one POST, with no token stored, and main goes no further: no
\* catalog output, no resource request.
C16_AuthorizeFailureStopsMain ==
    run.authFailedAt > 0 =>
        /\ run.stage = "crashed"
        /\ run.exc = "HTTPError"
        /\ tokenPosts = run.authFailedAt
        /\ token = run.tokenBefore
        /\ run.authFailedAt = 1 => token = ""
        /\ run.output = NoDocument
        /\ run.resource = 0
        /\ requestsMade = 0
        /\ run.attempted = <<>>

C16_Witness ==
    /\ run.authFailedAt = 1
    /\ run.stage = "crashed"
    /\ run.discover
    /\ tokenPosts = 1

\* C17: discovery emits one document with one entry per declared stream
\* type, whatever the catalog selects, and makes no resource request.
C17_DiscoveryListsEveryType ==
    (run.discover /\ run.stage = "exited") =>
        /\ StreamNames(run.output.streams) = TypeNames(run.available)
        /\ run.resource = 0
        /\ requestsMade = 0

C17_Witness ==
    /\ run.discover
    /\ run.stage = "exited"
    /\ Len(run.output.streams) = 2
    /\ run.catalog = <<[stream |-> "orders", selected |-> FALSE]>>

\* The most HTTP calls of one make_request: each try of the rate-limit layer
\* enters the transient layer with all its tries.
MaxCalls == MaxTries429 * MaxTries5xx

\* C21: whatever the responses, a make_request returns or raises, and has
\* made at most 5 * 5 = 25 HTTP calls, each of the at most 5 tries of the
\* rate-limit layer entering the transient layer with a fresh 5 tries.
C21_MakeRequestTerminates ==
    /\ [](/\ count.calls <= MaxCalls
          /\ count.run <= MaxTries5xx
          /\ outerTries <= MaxTries429
          /\ innerTries <= MaxTries5xx)
    /\ (pc \in {"call", "sleep5xx", "sleep429"}) ~> Done

C21_Witness ==
    /\ pc = "raised"
    /\ count.calls = MaxCalls
    /\ outerTries = MaxTries429
    /\ innerTries = MaxTries5xx
    /\ result.exc = "Server429Error"

====
